---- MODULE Spec2Model ----
(***************************************************************************)
(* sebastes: the Redfish scanner (sebastes/scanner/scanner.py) and the     *)
(* library generator (sebastes/processor/processor.py).                    *)
(*                                                                         *)
(* Text is modelled as sequences of one-character strings, so that         *)
(* str.lower, str.replace, str.split, slicing, concatenation and the       *)
(* substring test `in` are computed as Python computes them.  URIs are     *)
(* kept as atomic strings in the state; UriChars gives their characters.   *)
(*                                                                         *)
(* The recursion of Scanner.scan_models is an explicit call stack: one     *)
(* frame per scan_models call that is inside its `for uri in ...` loop.    *)
(* A RedfishData object is identified by the URI it was built for (the     *)
(* scanner builds at most one object per URI).                             *)
(***************************************************************************)
EXTENDS Naturals, Sequences, FiniteSets, TLC

VARIABLES
    max_models,      \* Scanner._max_models
    max_collection,  \* Scanner._max_collection
    entry_point,     \* the entry_point main passes to scan_models
    target,          \* the scanned service: what each URI links to
    redfish,         \* Scanner._redfish: the kept objects, in order
    objects,         \* every RedfishData object built so far, by identity
    scanned_uris,    \* Scanner._scanned_uris
    problems,        \* Scanner._problems
    stack,           \* the scan_models calls that are inside their loop
    fetched,         \* history: the URIs _get_json was called with, in order
    got,             \* history: what _get_json answered for each fetched URI
    uris_of,         \* history: what _get_uris returned for each sample
    picked,          \* history: the Members positions random.sample chose
    calls,           \* history: the scan_models calls made, as <<caller's URI, uri>>
    pc,              \* where main is
    processed_data,  \* generate_lib: processed_data
    init_data,       \* generate_lib: init_data
    lib_problems,    \* FileProcessor._problems
    files,           \* the files of FileProcessor.model_dir, by name
    idx,             \* generate_lib: the position of its running loop in _redfish_datas
    synth,           \* history: the _process_data calls and how each ended
    halves,          \* the Parser objects made for one module, each with its
                     \* redfish_data, child_data and what self._parser.results gave
    half,            \* the position in halves of the Parser that is running
    defs,            \* the CustomDataModel objects of the running Parser, by identity
    models,          \* Parser._get_data_models: models, as identities in order
    ppc,             \* where the running Parser is
    bodies,          \* the models of the Result of each Parser that is through
    categories       \* what RedfishData.category gave for each object asked

scanVars == <<max_models, max_collection, entry_point, target, redfish, objects,
              scanned_uris, problems, stack, fetched, got, uris_of, picked, calls>>
libVars == <<processed_data, init_data, lib_problems, files, idx, synth>>
parserVars == <<halves, half, defs, models, ppc, bodies>>
vars == <<scanVars, pc, libVars, parserVars, categories>>

----------------------------------------------------------------------------
(* Bounds of the model *)

MaxModels == 3
MaxCollection == 2

----------------------------------------------------------------------------
(* Text *)

UpperToLower ==
    ("A" :> "a") @@ ("B" :> "b") @@ ("C" :> "c") @@ ("D" :> "d") @@ ("E" :> "e") @@
    ("F" :> "f") @@ ("G" :> "g") @@ ("H" :> "h") @@ ("I" :> "i") @@ ("J" :> "j") @@
    ("K" :> "k") @@ ("L" :> "l") @@ ("M" :> "m") @@ ("N" :> "n") @@ ("O" :> "o") @@
    ("P" :> "p") @@ ("Q" :> "q") @@ ("R" :> "r") @@ ("S" :> "s") @@ ("T" :> "t") @@
    ("U" :> "u") @@ ("V" :> "v") @@ ("W" :> "w") @@ ("X" :> "x") @@ ("Y" :> "y") @@
    ("Z" :> "z")

LowerChar(c) == IF c \in DOMAIN UpperToLower THEN UpperToLower[c] ELSE c

UpperChar(c) ==
    IF \E u \in DOMAIN UpperToLower : UpperToLower[u] = c
    THEN CHOOSE u \in DOMAIN UpperToLower : UpperToLower[u] = c
    ELSE c

\* str.lower()
lower(s) == [i \in 1..Len(s) |-> LowerChar(s[i])]

\* Python's `needle in hay` on strings
StrIn(needle, hay) ==
    \E i \in 0..Len(hay) :
        /\ i + Len(needle) <= Len(hay)
        /\ SubSeq(hay, i + 1, i + Len(needle)) = needle

\* str.replace(old, new), old non-empty: leftmost non-overlapping occurrences
RECURSIVE replace(_, _, _)
replace(s, old, new) ==
    IF Len(s) < Len(old) THEN s
    ELSE IF SubSeq(s, 1, Len(old)) = old
         THEN new \o replace(SubSeq(s, Len(old) + 1, Len(s)), old, new)
         ELSE <<s[1]>> \o replace(Tail(s), old, new)

\* str.split('.')[-1]: what follows the last '.', the whole string without one
RECURSIVE LastSegment(_)
LastSegment(s) ==
    IF \E i \in 1..Len(s) : s[i] = "."
    THEN LastSegment(Tail(s))
    ELSE s

\* `x in list` for a list of plain values
InList(x, list) == \E i \in 1..Len(list) : list[i] = x

----------------------------------------------------------------------------
(* The scanned service *)

NoUri == "<None>"         \* None where a URI or an object is expected
NoName == <<"<None>">>    \* None where a name or an @odata.type is expected

UriChars ==
    ("/a" :> <<"/","a">>) @@ ("/b" :> <<"/","b">>) @@
    ("/c" :> <<"/","c">>) @@ ("/d" :> <<"/","d">>) @@
    ("/JsonSchemas" :> <<"/","J","s","o","n","S","c","h","e","m","a","s">>) @@
    ("/c/1" :> <<"/","c","/","1">>)

Uris == DOMAIN UriChars

\* the @odata.type values the service answers with; NoName: the key is absent
T_Drive == <<"#","D","r","i","v","e",".","D","r","i","v","e">>
T_DriveCollection ==
    <<"#","D","r","i","v","e",".","d","r","i","v","e","c","o","l","l","e","c","t","i","o","n">>
T_Empty == <<"#","D","r","i","v","e",".">>
Types == {NoName, T_Drive, T_DriveCollection, T_Empty}

\* One resource's links: its own @odata.id, its Members and the links nested
\* in its other fields, in the order the sample's keys hold them.
Res(id, members, links) == [odata_id |-> id, Members |-> members, links |-> links]

Tree ==
    ("/a" :> Res("/a", <<>>, <<"/b", "/c">>)) @@
    ("/b" :> Res("/b", <<>>, <<"/d">>)) @@
    ("/c" :> Res("/c", <<>>, <<"/d", "/JsonSchemas">>)) @@
    ("/d" :> Res("/d", <<>>, <<"/a">>))

Collection ==
    ("/a" :> Res("/a", <<"/b", "/c", "/d">>, <<>>)) @@
    ("/b" :> Res("/b", <<>>, <<>>)) @@
    ("/c" :> Res("/c", <<>>, <<"/JsonSchemas">>)) @@
    ("/d" :> Res("/d", <<>>, <<"/b">>))

Chain ==
    ("/a" :> Res(NoUri, <<>>, <<"/b">>)) @@
    ("/b" :> Res(NoUri, <<>>, <<"/c">>)) @@
    ("/c" :> Res(NoUri, <<>>, <<"/d">>)) @@
    ("/d" :> Res(NoUri, <<>>, <<"/b">>))

Nested ==
    ("/a" :> Res("/b", <<>>, <<"/c">>)) @@
    ("/b" :> Res("/b", <<"/c", "/d", "/JsonSchemas">>, <<>>)) @@
    ("/c" :> Res("/c", <<>>, <<"/d">>)) @@
    ("/d" :> Res("/d", <<>>, <<>>))

Twins ==
    ("/a" :> Res(NoUri, <<>>, <<"/b", "/c">>)) @@
    ("/b" :> Res("/b", <<>>, <<>>)) @@
    ("/c" :> Res("/c", <<>>, <<"/d">>)) @@
    ("/d" :> Res("/d", <<>>, <<>>))

Targets == {Tree, Collection, Chain, Nested, Twins}

\* A service whose answer at /a is a sample with the type tag
\* #Chassis.v1.Chassis, the identity link /c/1 and a Name
T_Chassis ==
    <<"#","C","h","a","s","s","i","s",".","v","1",".","C","h","a","s","s","i","s">>

Chassis ==
    ("/a" :> Res("/c/1", <<>>, <<>>)) @@
    ("/c/1" :> Res("/c/1", <<>>, <<>>))

\* the @odata.type values the service may answer with at the URI, when the
\* scan started at start: the Chassis service answers the first fetch with
\* the Chassis sample
TypesAt(service, start, uri) ==
    IF service = Chassis
    THEN IF uri = start THEN {T_Chassis} ELSE Types \cup {T_Chassis}
    ELSE Types

EntryPoints == {"/a", "/JsonSchemas"}

----------------------------------------------------------------------------
(* RedfishData *)

None == NoUri

\* RedfishData.full_name
full_name(objs, o) ==
    IF objs[o].parent # None
    THEN objs[objs[o].parent].name \o objs[o].name
    ELSE objs[o].name

\* mutant: equality by identity, as without __eq__
EqIdentity(objs, o1, o2) == o1 = o2

\* RedfishData.__eq__
Eq(objs, o1, o2) == full_name(objs, o1) = full_name(objs, o2)

\* `model in list` for a list of RedfishData: list.__contains__ by __eq__
ContainsNever(objs, list, o) == FALSE

Contains(objs, list, o) == \E i \in 1..Len(list) : Eq(objs, list[i], o)

----------------------------------------------------------------------------
(* Scanner *)

Raised == <<"<IndexError>">>

\* Scanner._get_model_name
get_model_name(data) ==
    IF data.otype = NoName THEN NoName
    ELSE LET v0 == LastSegment(data.otype)
             v1 == replace(v0, <<"c","o","l","l","e","c","t","i","o","n">>,
                               <<"C","o","l","l","e","c","t","i","o","n">>)
             v2 == replace(v1, <<"e","n","t","r","y">>, <<"E","n","t","r","y">>)
         IN  IF Len(v2) = 0 THEN Raised
             ELSE <<UpperChar(v2[1])>> \o Tail(v2)

\* random.sample(range(m), k): the sequences of k pairwise distinct positions
Samples(m, k) ==
    {s \in [1..k -> 1..m] : \A i, j \in 1..k : i # j => s[i] # s[j]}

\* mutant: every member is taken, whatever the width
MemberPicksAll(data, width) == {[i \in 1..Len(data.Members) |-> i]}

\* the positions of Members that _get_uris descends into, in order
MemberPicks(data, width) ==
    IF Len(data.Members) > width
    THEN Samples(Len(data.Members), width)
    ELSE {[i \in 1..Len(data.Members) |-> i]}

\* mutant: the sample's own @odata.id is not among the URIs
get_uris_below(data, pick) ==
    [i \in 1..Len(pick) |-> data.Members[pick[i]]] \o data.links

\* Scanner._get_uris, with the sample random.sample drew
get_uris(data, pick) ==
    (IF data.odata_id # NoUri THEN <<data.odata_id>> ELSE <<>>)
        \o [i \in 1..Len(pick) |-> data.Members[pick[i]]]
        \o data.links

\* 'jsonschemas' in entry_point.lower()
Excluded(uri) ==
    StrIn(<<"j","s","o","n","s","c","h","e","m","a","s">>, lower(UriChars[uri]))

\* mutant: the comparison is off by one
BudgetLeftOffByOne == Len(redfish) <= max_models

\* len(self._redfish) < self._max_models
BudgetLeft == Len(redfish) < max_models

\* entry_point not in self._scanned_uris and 'jsonschemas' not in entry_point.lower()
ToScan(uri) == ~InList(uri, scanned_uris) /\ ~Excluded(uri)

\* mutant: the URI is not recorded as scanned
MarkScannedForgets(uri) == scanned_uris

\* self._scanned_uris.append(entry_point)
MarkScanned(uri) == Append(scanned_uris, uri)

\* mutant: the name is not compared with the parent's
RegistrableAnyParent(parent, name) == name # NoName

\* (parent is None or parent.name != name) and name is not None
Registrable(parent, name) ==
    (parent = None \/ objects[parent].name # name) /\ name # NoName

\* mutant: reaching the limit is reported as a Problem of the skipped URI
ModelsLimitReported(uri, parent, rest) ==
    /\ ~(Len(redfish) < max_models)
    /\ stack' = rest
    /\ problems' = Append(problems, [url |-> uri, description |-> "limit"])
    /\ UNCHANGED <<redfish, objects, scanned_uris, fetched, got, uris_of, picked>>

\* scan_models, the branch that logs 'Models limit was reached'
ModelsLimit(uri, parent, rest) ==
    /\ ~BudgetLeft
    /\ stack' = rest
    /\ UNCHANGED <<redfish, objects, scanned_uris, problems, fetched, got, uris_of, picked>>

\* scan_models, the URI already scanned or excluded: nothing happens
NotScanned(uri, parent, rest) ==
    /\ BudgetLeft
    /\ ~ToScan(uri)
    /\ stack' = rest
    /\ UNCHANGED <<redfish, objects, scanned_uris, problems, fetched, got, uris_of, picked>>

\* mutant: the failure is not caught in the call that fetched, it also ends
\* the loop of the caller
FetchFailsPropagates(uri, parent, rest) ==
    /\ Len(redfish) < max_models
    /\ ~InList(uri, scanned_uris) /\ ~Excluded(uri)
    /\ scanned_uris' = Append(scanned_uris, uri)
    /\ fetched' = Append(fetched, uri)
    /\ got' = (uri :> [ok |-> FALSE, parent |-> parent]) @@ got
    /\ problems' = Append(problems, [url |-> uri, description |-> "response"])
    /\ stack' = SubSeq(rest, 1, Len(rest) - 1)
    /\ UNCHANGED <<redfish, objects, uris_of, picked>>

\* mutant: a URI whose fetch failed is not left marked as scanned
FetchFailsUnmarked(uri, parent, rest) ==
    /\ BudgetLeft
    /\ ToScan(uri)
    /\ scanned_uris' = scanned_uris
    /\ fetched' = Append(fetched, uri)
    /\ got' = (uri :> [ok |-> FALSE, parent |-> parent]) @@ got
    /\ problems' = Append(problems, [url |-> uri, description |-> "response"])
    /\ stack' = rest
    /\ UNCHANGED <<redfish, objects, uris_of, picked>>

\* scan_models, _get_json raises: the except clause records the Problem
FetchFails(uri, parent, rest) ==
    /\ BudgetLeft
    /\ ToScan(uri)
    /\ scanned_uris' = MarkScanned(uri)
    /\ fetched' = Append(fetched, uri)
    /\ got' = (uri :> [ok |-> FALSE, parent |-> parent]) @@ got
    /\ problems' = Append(problems, [url |-> uri, description |-> "response"])
    /\ stack' = rest
    /\ UNCHANGED <<redfish, objects, uris_of, picked>>

\* scan_models, _get_json answers: the name is derived, the model is built and
\* kept unless an equal one is, the child URIs are extracted and the loop starts
FetchAnswers(uri, parent, rest) ==
    /\ BudgetLeft
    /\ ToScan(uri)
    /\ scanned_uris' = MarkScanned(uri)
    /\ fetched' = Append(fetched, uri)
    /\ \E otype \in TypesAt(target, entry_point, uri) :
        LET data == [otype |-> otype, odata_id |-> target[uri].odata_id,
                     Members |-> target[uri].Members, links |-> target[uri].links]
            name == get_model_name(data)
        IN  /\ got' = (uri :> [ok |-> TRUE, parent |-> parent, data |-> data]) @@ got
            /\ IF name = Raised
               THEN /\ problems' = Append(problems, [url |-> uri, description |-> "IndexError"])
                    /\ stack' = rest
                    /\ UNCHANGED <<redfish, objects, uris_of, picked>>
               ELSE LET reg == Registrable(parent, name)
                        model == IF reg THEN uri ELSE None
                        objs == IF reg
                                THEN (uri :> [name |-> name, data |-> data,
                                              uri |-> uri, parent |-> parent]) @@ objects
                                ELSE objects
                    IN  /\ objects' = objs
                        /\ redfish' = IF reg /\ ~Contains(objs, redfish, uri)
                                      THEN Append(redfish, uri)
                                      ELSE redfish
                        /\ \E pick \in MemberPicks(data, max_collection) :
                            /\ picked' = (uri :> pick) @@ picked
                            /\ uris_of' = (uri :> get_uris(data, pick)) @@ uris_of
                            /\ stack' = Append(rest, [entry_point |-> uri, parent |-> parent,
                                                      model |-> model,
                                                      uris |-> get_uris(data, pick)])
                        /\ UNCHANGED problems

\* Scanner.scan_models(entry_point=uri, parent=parent), called with `rest` as
\* the callers' frames
scan_models(uri, parent, rest) ==
    \/ ModelsLimit(uri, parent, rest)
    \/ NotScanned(uri, parent, rest)
    \/ FetchFails(uri, parent, rest)
    \/ FetchAnswers(uri, parent, rest)

Main == "<main>"          \* the caller of the top-level scan_models call

Top == stack[Len(stack)]

\* the frames once the innermost loop has taken its next uri
Advanced == [stack EXCEPT ![Len(stack)].uris = Tail(@)]

\* main: scanner.scan_models(entry_point=entry_point)
MainScan ==
    /\ pc = "main"
    /\ pc' = "scan"
    /\ scan_models(entry_point, None, stack)
    /\ calls' = calls \cup {<<Main, entry_point>>}
    /\ UNCHANGED <<max_models, max_collection, entry_point, target, libVars, parserVars, categories>>

\* the loop of scan_models: `if uri not in self._scanned_uris` is false
LoopPass ==
    /\ pc = "scan"
    /\ stack # <<>>
    /\ Top.uris # <<>>
    /\ InList(Head(Top.uris), scanned_uris)
    /\ stack' = Advanced
    /\ UNCHANGED <<max_models, max_collection, entry_point, target, redfish, objects,
                   scanned_uris, problems, fetched, got, uris_of, picked, calls, pc, libVars, parserVars, categories>>

\* mutant: the call passes no parent
LoopCallOrphans ==
    /\ pc = "scan"
    /\ stack # <<>>
    /\ Top.uris # <<>>
    /\ ~InList(Head(Top.uris), scanned_uris)
    /\ scan_models(Head(Top.uris), None, Advanced)
    /\ calls' = calls \cup {<<Top.entry_point, Head(Top.uris)>>}
    /\ UNCHANGED <<max_models, max_collection, entry_point, target, pc, libVars, parserVars, categories>>

\* the loop of scan_models: self.scan_models(entry_point=uri, parent=model)
LoopCall ==
    /\ pc = "scan"
    /\ stack # <<>>
    /\ Top.uris # <<>>
    /\ ~InList(Head(Top.uris), scanned_uris)
    /\ scan_models(Head(Top.uris), Top.model, Advanced)
    /\ calls' = calls \cup {<<Top.entry_point, Head(Top.uris)>>}
    /\ UNCHANGED <<max_models, max_collection, entry_point, target, pc, libVars, parserVars, categories>>

\* the loop of a scan_models call is over: the call returns to its caller
Return ==
    /\ pc = "scan"
    /\ stack # <<>>
    /\ Top.uris = <<>>
    /\ stack' = SubSeq(stack, 1, Len(stack) - 1)
    /\ UNCHANGED <<max_models, max_collection, entry_point, target, redfish, objects,
                   scanned_uris, problems, fetched, got, uris_of, picked, calls, pc, libVars, parserVars, categories>>

\* the top-level scan_models call has returned to main
MainScanned ==
    /\ pc = "scan"
    /\ stack = <<>>
    /\ pc' = "scanned"
    /\ UNCHANGED <<scanVars, libVars, parserVars, categories>>

----------------------------------------------------------------------------
(* RedfishData, as the processor uses it *)

IsUpper(c) == c \in DOMAIN UpperToLower
IsLower(c) == \E u \in DOMAIN UpperToLower : UpperToLower[u] = c
IsDigit(c) == c \in {"0", "1", "2", "3", "4", "5", "6", "7", "8", "9"}

\* the end of the run of [a-z] that starts at position i of s (i - 1: no run)
RECURSIVE LowerRunEnd(_, _)
LowerRunEnd(s, i) ==
    IF i <= Len(s) /\ IsLower(s[i]) THEN LowerRunEnd(s, i + 1) ELSE i - 1

\* re.sub('(.)([A-Z][a-z]+)', r'\1_\2', s)
RECURSIVE Sub1(_)
Sub1(s) ==
    IF Len(s) = 0 THEN <<>>
    ELSE IF Len(s) >= 3 /\ IsUpper(s[2]) /\ IsLower(s[3])
         THEN LET e == LowerRunEnd(s, 3)
              IN  <<s[1], "_">> \o SubSeq(s, 2, e) \o Sub1(SubSeq(s, e + 1, Len(s)))
         ELSE <<s[1]>> \o Sub1(Tail(s))

\* re.sub('__([A-Z])', r'_\1', s)
RECURSIVE Sub2(_)
Sub2(s) ==
    IF Len(s) = 0 THEN <<>>
    ELSE IF Len(s) >= 3 /\ s[1] = "_" /\ s[2] = "_" /\ IsUpper(s[3])
         THEN <<"_", s[3]>> \o Sub2(SubSeq(s, 4, Len(s)))
         ELSE <<s[1]>> \o Sub2(Tail(s))

\* re.sub('([a-z0-9])([A-Z])', r'\1_\2', s)
RECURSIVE Sub3(_)
Sub3(s) ==
    IF Len(s) = 0 THEN <<>>
    ELSE IF Len(s) >= 2 /\ (IsLower(s[1]) \/ IsDigit(s[1])) /\ IsUpper(s[2])
         THEN <<s[1], "_", s[2]>> \o Sub3(SubSeq(s, 3, Len(s)))
         ELSE <<s[1]>> \o Sub3(Tail(s))

\* RedfishData.file_name
file_name(objs, o) == lower(Sub3(Sub2(Sub1(full_name(objs, o)))))

COLLECTION == "Collection"
ELEMENT == "Element"
RESOURCE == "Resource"

\* mutant: without @odata.id and @odata.type, not a Resource
category_by_fields(objs, o) ==
    IF StrIn(<<"c","o","l","l","e","c","t","i","o","n">>, lower(objs[o].name))
    THEN COLLECTION
    ELSE IF /\ objs[o].parent # None
            /\ StrIn(<<"c","o","l","l","e","c","t","i","o","n">>,
                     lower(objs[objs[o].parent].name))
            /\ StrIn(objs[o].name, objs[objs[o].parent].name)
         THEN ELEMENT
         ELSE IF objs[o].data.odata_id = NoUri /\ objs[o].data.otype = NoName
              THEN "???"
              ELSE RESOURCE

\* mutant: every child of a collection is an Element
category_of_child(objs, o) ==
    IF StrIn(<<"c","o","l","l","e","c","t","i","o","n">>, lower(objs[o].name))
    THEN COLLECTION
    ELSE IF /\ objs[o].parent # None
            /\ StrIn(<<"c","o","l","l","e","c","t","i","o","n">>,
                     lower(objs[objs[o].parent].name))
         THEN ELEMENT
         ELSE RESOURCE

\* RedfishData.category
RECURSIVE category(_, _)
category(objs, o) ==
    IF StrIn(<<"c","o","l","l","e","c","t","i","o","n">>, lower(objs[o].name))
    THEN COLLECTION
    ELSE IF /\ objs[o].parent # None
            /\ category(objs, objs[o].parent) = COLLECTION
            /\ StrIn(objs[o].name, objs[objs[o].parent].name)
         THEN ELEMENT
         ELSE RESOURCE

----------------------------------------------------------------------------
(* FileProcessor *)

\* the characters of file names and class names, in code point order
CodePoints ==
    <<"0","1","2","3","4","5","6","7","8","9",
      "A","B","C","D","E","F","G","H","I","J","K","L","M",
      "N","O","P","Q","R","S","T","U","V","W","X","Y","Z","_",
      "a","b","c","d","e","f","g","h","i","j","k","l","m",
      "n","o","p","q","r","s","t","u","v","w","x","y","z">>

Ord(c) == CHOOSE i \in 1..Len(CodePoints) : CodePoints[i] = c

\* str.__lt__
RECURSIVE StrLess(_, _)
StrLess(a, b) ==
    IF Len(b) = 0 THEN FALSE
    ELSE IF Len(a) = 0 THEN TRUE
    ELSE IF a[1] # b[1] THEN Ord(a[1]) < Ord(b[1])
    ELSE StrLess(Tail(a), Tail(b))

\* list.__lt__ for lists of str
RECURSIVE ListLess(_, _)
ListLess(a, b) ==
    IF Len(b) = 0 THEN FALSE
    ELSE IF Len(a) = 0 THEN TRUE
    ELSE IF a[1] # b[1] THEN StrLess(a[1], b[1])
    ELSE ListLess(Tail(a), Tail(b))

\* tuple.__lt__ for the (file_name, class names) entries of init_data
EntryLess(a, b) ==
    IF a[1] # b[1] THEN StrLess(a[1], b[1]) ELSE ListLess(a[2], b[2])

\* insertion of one entry into a sorted list, after the entries not greater
RECURSIVE Insert(_, _)
Insert(e, sorted) ==
    IF Len(sorted) = 0 THEN <<e>>
    ELSE IF EntryLess(e, sorted[1]) THEN <<e>> \o sorted
    ELSE <<sorted[1]>> \o Insert(e, Tail(sorted))

\* list.sort() (stable)
RECURSIVE Sorted(_)
Sorted(data) ==
    IF Len(data) = 0 THEN <<>>
    ELSE Insert(data[Len(data)], Sorted(SubSeq(data, 1, Len(data) - 1)))

RECURSIVE Flatten(_)
Flatten(lists) ==
    IF Len(lists) = 0 THEN <<>> ELSE lists[1] \o Flatten(Tail(lists))

LineWidth == 120

\* _prepare_init_file, the loop that lays the class names out in lines;
\* line: the names of the running line, len: the length of its text
RECURSIVE AllLines(_, _, _)
AllLines(classes, line, len) ==
    IF Len(classes) = 0
    THEN IF len # 1 THEN <<line>> ELSE <<>>
    ELSE IF len + Len(classes[1]) > LineWidth
         THEN <<line>> \o AllLines(Tail(classes), <<>>, 1)
         ELSE AllLines(Tail(classes), Append(line, classes[1]),
                       len + Len(classes[1]) + 4)

\* FileProcessor._prepare_init_file: the text of __init__.py, as the lines of
\* __all__ (the names each holds) and the import statements
prepare_init_file(data) ==
    LET sorted == Sorted(data)
    IN  [all |-> AllLines(Flatten([i \in 1..Len(sorted) |-> sorted[i][2]]), <<>>, 1),
         imports |-> sorted]

CommonName == <<"c","o","m","m","o","n">>
InitName == <<"_","_","i","n","i","t","_","_">>
DataManager == <<"D","a","t","a","M","a","n","a","g","e","r">>

\* mutant: the exception of a call is swallowed without a Problem
ProcessProblemsNone(objs, node, ok) == <<>>

\* a Problem of _process_data for a call that raised
ProcessProblems(objs, node, ok) ==
    IF ok THEN <<>> ELSE <<[url |-> objs[node].uri, description |-> "Unable process"]>>

\* main: FileProcessor(scanner.redfish_datas, output).generate_lib(), up to its
\* first loop: _prepare_folders empties model_dir and copies common.py into it
GenerateLib ==
    /\ pc = "scanned"
    /\ pc' = "pass1"
    /\ files' = (CommonName :> [kind |-> "common", bodies |-> <<>>, imports |-> <<>>])
    /\ processed_data' = <<>>
    /\ init_data' = <<>>
    /\ idx' = 1
    /\ UNCHANGED <<parserVars, categories, scanVars, lib_problems, synth>>

\* mutant: the Element is paired whether or not its parent is processed
PairDueOfElement(data) ==
    /\ category(objects, data) = ELEMENT
    /\ ~Contains(objects, processed_data, data)

\* if data.category == ELEMENT: if data not in processed_data and
\* data.parent not in processed_data
PairDue(data) ==
    /\ category(objects, data) = ELEMENT
    /\ ~Contains(objects, processed_data, data)
    /\ ~Contains(objects, processed_data, objects[data].parent)

\* mutant: the pair is not remembered as processed
pair_forgotten(data, parent) == processed_data

\* processed_data.append(data); processed_data.append(data.parent)
pair_processed(data, parent) == processed_data \o <<data, parent>>

\* first loop of generate_lib, a node that is not paired now
Pass1Skip ==
    /\ pc = "pass1"
    /\ idx <= Len(redfish)
    /\ ~PairDue(redfish[idx])
    /\ idx' = idx + 1
    /\ UNCHANGED <<parserVars, categories, scanVars, pc, processed_data, init_data, lib_problems, files, synth>>

\* first loop of generate_lib, an Element and its parent are processed together
Pass1Pair ==
    /\ pc = "pass1"
    /\ idx <= Len(redfish)
    /\ PairDue(redfish[idx])
    /\ LET data == redfish[idx]
           parent == objects[data].parent
       IN  /\ processed_data' = pair_processed(data, parent)
           /\ \E element, collection \in BOOLEAN :
                /\ synth' = synth \o <<[node |-> data, child |-> None, pair |-> TRUE,
                                        ok |-> element],
                                       [node |-> parent, child |-> data, pair |-> TRUE,
                                        ok |-> collection]>>
                /\ lib_problems' = lib_problems \o ProcessProblems(objects, data, element)
                                                \o ProcessProblems(objects, parent, collection)
                /\ IF element /\ collection
                   THEN /\ files' = (file_name(objects, parent) :>
                                        [kind |-> "models", bodies |-> <<data, parent>>,
                                         imports |-> <<data, parent>>]) @@ files
                        /\ init_data' = Append(init_data,
                                               <<file_name(objects, parent),
                                                 <<full_name(objects, parent),
                                                   full_name(objects, data)>> >>)
                   ELSE UNCHANGED <<files, init_data>>
    /\ idx' = idx + 1
    /\ UNCHANGED <<parserVars, categories, scanVars, pc>>

\* the first loop of generate_lib is over, the second starts
Pass1Done ==
    /\ pc = "pass1"
    /\ idx > Len(redfish)
    /\ pc' = "pass2"
    /\ idx' = 1
    /\ UNCHANGED <<parserVars, categories, scanVars, processed_data, init_data, lib_problems, files, synth>>

\* second loop of generate_lib, a node that is in processed_data
Pass2Skip ==
    /\ pc = "pass2"
    /\ idx <= Len(redfish)
    /\ Contains(objects, processed_data, redfish[idx])
    /\ idx' = idx + 1
    /\ UNCHANGED <<parserVars, categories, scanVars, pc, processed_data, init_data, lib_problems, files, synth>>

\* second loop of generate_lib, a node is processed alone
Pass2Single ==
    /\ pc = "pass2"
    /\ idx <= Len(redfish)
    /\ ~Contains(objects, processed_data, redfish[idx])
    /\ LET data == redfish[idx]
       IN  /\ processed_data' = Append(processed_data, data)
           /\ \E entry \in BOOLEAN :
                /\ synth' = Append(synth, [node |-> data, child |-> None, pair |-> FALSE,
                                            ok |-> entry])
                /\ lib_problems' = lib_problems \o ProcessProblems(objects, data, entry)
                /\ IF entry
                   THEN /\ files' = (file_name(objects, data) :>
                                        [kind |-> "models", bodies |-> <<data>>,
                                         imports |-> <<data>>]) @@ files
                        /\ init_data' = Append(init_data,
                                               <<file_name(objects, data),
                                                 <<full_name(objects, data)>> >>)
                   ELSE UNCHANGED <<files, init_data>>
    /\ idx' = idx + 1
    /\ UNCHANGED <<parserVars, categories, scanVars, pc>>

\* mutant: the fixed entry is not added
Pass2DoneBare ==
    /\ pc = "pass2"
    /\ idx > Len(redfish)
    /\ pc' = "done"
    /\ init_data' = Sorted(init_data)
    /\ files' = (InitName :> [kind |-> "init", bodies |-> <<>>,
                              imports |-> <<>>,
                              text |-> prepare_init_file(init_data)])
                    @@ files
    /\ UNCHANGED <<parserVars, categories, scanVars, processed_data, lib_problems, idx, synth>>

\* the end of generate_lib: the fixed entry is added and __init__.py is written
Pass2Done ==
    /\ pc = "pass2"
    /\ idx > Len(redfish)
    /\ pc' = "done"
    /\ init_data' = Sorted(Append(init_data, <<CommonName, <<DataManager>> >>))
    /\ files' = (InitName :> [kind |-> "init", bodies |-> <<>>,
                              imports |-> <<>>,
                              text |-> prepare_init_file(
                                  Append(init_data, <<CommonName, <<DataManager>> >>))])
                    @@ files
    /\ UNCHANGED <<parserVars, categories, scanVars, processed_data, lib_problems, idx, synth>>

Init ==
    /\ max_models \in 0..MaxModels
    /\ max_collection \in 0..MaxCollection
    /\ entry_point \in EntryPoints
    /\ target \in Targets
    /\ redfish = <<>>
    /\ objects = <<>>
    /\ scanned_uris = <<>>
    /\ problems = <<>>
    /\ stack = <<>>
    /\ fetched = <<>>
    /\ got = <<>>
    /\ uris_of = <<>>
    /\ picked = <<>>
    /\ calls = {}
    /\ pc = "main"
    /\ processed_data = <<>>
    /\ init_data = <<>>
    /\ lib_problems = <<>>
    /\ files = <<>>
    /\ idx = 0
    /\ synth = <<>>
    /\ halves = <<>>
    /\ half = 0
    /\ defs = <<>>
    /\ models = <<>>
    /\ ppc = "idle"
    /\ bodies = <<>>
    /\ categories = <<>>

Next ==
    \/ MainScan
    \/ LoopPass
    \/ LoopCall
    \/ Return
    \/ MainScanned
    \/ GenerateLib
    \/ Pass1Skip
    \/ Pass1Pair
    \/ Pass1Done
    \/ Pass2Skip
    \/ Pass2Single
    \/ Pass2Done

Spec == Init /\ [][Next]_vars

\* the scanner alone, which runs on one thread until scan_models returns
ScanNext ==
    \/ MainScan
    \/ LoopPass
    \/ LoopCall
    \/ Return
    \/ MainScanned

ScanSpec == Init /\ [][ScanNext]_vars /\ WF_vars(ScanNext)

\* the scanner on the Chassis service, from /a, from /c/1 and from an
\* excluded URI
ChassisInit ==
    /\ max_models \in 0..MaxModels
    /\ max_collection \in 0..MaxCollection
    /\ entry_point \in {"/a", "/c/1", "/JsonSchemas"}
    /\ target = Chassis
    /\ redfish = <<>>
    /\ objects = <<>>
    /\ scanned_uris = <<>>
    /\ problems = <<>>
    /\ stack = <<>>
    /\ fetched = <<>>
    /\ got = <<>>
    /\ uris_of = <<>>
    /\ picked = <<>>
    /\ calls = {}
    /\ pc = "main"
    /\ processed_data = <<>>
    /\ init_data = <<>>
    /\ lib_problems = <<>>
    /\ files = <<>>
    /\ idx = 0
    /\ synth = <<>>
    /\ halves = <<>>
    /\ half = 0
    /\ defs = <<>>
    /\ models = <<>>
    /\ ppc = "idle"
    /\ bodies = <<>>
    /\ categories = <<>>

ChassisSpec == ChassisInit /\ [][ScanNext]_vars

----------------------------------------------------------------------------
(* CustomDataModel *)

\* DataModelCategory (ACTION is a reserved word)
ACTION_ == "Action"
LINK == "Link"
UNKNOWN == "???"

\* category_fields, in the order of the dict
category_fields ==
    << <<LINK, <<"odata_id">> >>,
       <<ACTION_, <<"target">> >>,
       <<RESOURCE, <<"odata_id", "odata_type">> >>,
       <<COLLECTION, <<"odata_id", "odata_type", "members_odata_count", "members">> >> >>

\* category_fields.get(category)
CategoryFields(cat) ==
    category_fields[CHOOSE k \in 1..Len(category_fields) : category_fields[k][1] = cat][2]

\* optional_fields.get(category)
optional_fields(cat) ==
    CASE cat = LINK -> <<>>
      [] cat = ACTION_ -> <<"redfish_action_info">>
      [] cat = RESOURCE -> <<"id", "odata_context", "description", "name">>
      [] cat = COLLECTION ->
            <<"id", "odata_context", "description", "name", "members_odata_next_link">>

\* [field.name for field in self.fields]
FieldNames(model) == [i \in 1..Len(model.fields) |-> model.fields[i].name]

\* CustomDataModel._fields_are_present
fields_are_present(model, names) ==
    \A i \in 1..Len(names) : InList(names[i], FieldNames(model))

\* CustomDataModel.category: the loop over category_fields, from its k-th item
RECURSIVE CategoryFrom(_, _, _)
CategoryFrom(model, k, cat) ==
    IF k > Len(category_fields) THEN cat
    ELSE CategoryFrom(model, k + 1,
                      IF fields_are_present(model, category_fields[k][2])
                      THEN category_fields[k][1] ELSE cat)

model_category(model) == CategoryFrom(model, 1, UNKNOWN)

\* the characters of the names that are not class names of the schema
ValueChars ==
    (LINK :> <<"L","i","n","k">>) @@ (ACTION_ :> <<"A","c","t","i","o","n">>) @@
    (RESOURCE :> <<"R","e","s","o","u","r","c","e">>) @@
    (COLLECTION :> <<"C","o","l","l","e","c","t","i","o","n">>) @@
    ("str" :> <<"s","t","r">>) @@ ("Type" :> <<"T","y","p","e">>)

\* the name a data type is written with: the name of the model its reference
\* is to, as it is now, or its own
type_name(ds, t) == IF t.kind = "ref" THEN ds[t.id].name ELSE ValueChars[t.name]

\* the wrappers of a type hint, as the text around the name
Bare == ""
Wrappers == {Bare, "List[]", "Dict[]", "Optional[]", "Dict[str, ]", "Optional[List[]]"}

\* field.type_hint: the text, as its wrapper and the name in it
type_hint(ds, field) == <<field.wrap, type_name(ds, field.type)>>

Ref(id) == [kind |-> "ref", id |-> id, name |-> ""]
Builtin(name) == [kind |-> "builtin", id |-> 0, name |-> name]

----------------------------------------------------------------------------
(* Parser *)

\* Parser._get_data_type: a DataType of the category's class of .common,
\* whose type hint has the wrapper of its flags
get_data_type(cat, collection, is_optional) ==
    [wrap |-> IF is_optional THEN "Optional[]"
              ELSE IF collection = "List" THEN "List[]"
              ELSE IF collection = "Dict" THEN "Dict[]"
              ELSE Bare,
     type |-> [kind |-> "common", id |-> 0, name |-> cat]]

\* the models of the category: [m for m in models if m.category == category]
targets(ds, ms, cat) == {ms[i] : i \in {j \in 1..Len(ms) : model_category(ds[ms[j]]) = cat}}

\* field.data_type = data_type
WithDataType(field, data_type) ==
    [field EXCEPT !.wrap = data_type.wrap, !.type = data_type.type]

\* field.type_hint in [the names of the targets, in the wrapper]
HintIn(ds, field, wrap, names) ==
    type_hint(ds, field)[1] = wrap /\ type_hint(ds, field)[2] \in names

\* mutant: a list of the targets becomes a plain reference to the class
CleanedFieldUnwrapped(ds, field, names, cat) ==
    IF type_hint(ds, field)[2] \in names /\ field.wrap \in {Bare, "List[]", "Dict[]", "Optional[]"}
    THEN WithDataType(field, get_data_type(cat, "", field.wrap = "Optional[]"))
    ELSE field

\* _clean_up_models, the four tests on one field, one after the other
CleanedField(ds, field, names, cat) ==
    LET f1 == IF HintIn(ds, field, Bare, names)
              THEN WithDataType(field, get_data_type(cat, "", FALSE)) ELSE field
        f2 == IF HintIn(ds, f1, "List[]", names)
              THEN WithDataType(f1, get_data_type(cat, "List", FALSE)) ELSE f1
        f3 == IF HintIn(ds, f2, "Dict[]", names)
              THEN WithDataType(f2, get_data_type(cat, "Dict", FALSE)) ELSE f2
    IN  IF HintIn(ds, f3, "Optional[]", names)
        THEN WithDataType(f3, get_data_type(cat, "", TRUE)) ELSE f3

\* Parser._clean_up_models
clean_up_models(ds, ms, cat) ==
    LET tg == targets(ds, ms, cat)
        names == {ds[t].name : t \in tg}
    IN  IF tg = {} THEN [defs |-> ds, models |-> ms]
        ELSE [defs |-> [i \in DOMAIN ds |->
                          IF InList(i, ms) /\ i \notin tg
                          THEN [ds[i] EXCEPT !.fields =
                                   [k \in 1..Len(ds[i].fields) |->
                                       CleanedField(ds, ds[i].fields[k], names, cat)]]
                          ELSE ds[i]],
              models |-> SelectSeq(ms, LAMBDA m : m \notin tg)]

\* mutant: only the defining fields of the category are removed
update_classes_defining(ds, ms, cat) ==
    LET tg == targets(ds, ms, cat)
    IN  [defs |-> [i \in DOMAIN ds |->
                     IF i \in tg
                     THEN [ds[i] EXCEPT
                              !.fields = SelectSeq(ds[i].fields,
                                  LAMBDA f : ~InList(f.name, CategoryFields(cat))),
                              !.base_classes = <<cat>>,
                              !.imports = ds[i].imports \cup {cat}]
                     ELSE ds[i]],
         models |-> ms]

\* Parser._update_classes
update_classes(ds, ms, cat) ==
    LET tg == targets(ds, ms, cat)
        fields_to_remove == CategoryFields(cat) \o optional_fields(cat)
    IN  IF tg = {} THEN [defs |-> ds, models |-> ms]
        ELSE [defs |-> [i \in DOMAIN ds |->
                          IF i \in tg
                          THEN [ds[i] EXCEPT
                                   !.fields = SelectSeq(ds[i].fields,
                                       LAMBDA f : ~InList(f.name, fields_to_remove)),
                                   !.base_classes = <<cat>>,
                                   !.imports = ds[i].imports \cup {cat}]
                          ELSE ds[i]],
              models |-> ms]

\* Parser._update_collection_methods
update_collection_methods(ds, ms, name, child) ==
    [defs |-> [i \in DOMAIN ds |->
                 IF /\ InList(i, ms)
                    /\ model_category(ds[i]) = COLLECTION
                    /\ ds[i].name = name
                    /\ child # NoName
                 THEN [ds[i] EXCEPT !.methods = Append(ds[i].methods, child),
                                    !.imports = ds[i].imports \cup {"Type"}]
                 ELSE ds[i]],
     models |-> ms]

\* Parser._update_description
update_description(ds, ms, name, description) ==
    [defs |-> [i \in DOMAIN ds |->
                 IF description # NoName /\ InList(i, ms) /\ ds[i].name = name
                 THEN [ds[i] EXCEPT !.description = description]
                 ELSE ds[i]],
     models |-> ms]

\* Parser._update_url
update_url(ds, ms, name) ==
    [defs |-> [i \in DOMAIN ds |->
                 IF InList(i, ms) /\ ds[i].name = name
                 THEN [ds[i] EXCEPT !.fields =
                          <<[name |-> "_url", wrap |-> Bare, type |-> Builtin("str")]>>
                              \o ds[i].fields]
                 ELSE ds[i]],
     models |-> ms]

\* Parser._update_root_model_name
update_root_model_name(ds, ms, name) ==
    [defs |-> [i \in DOMAIN ds |->
                 IF InList(i, ms) /\ lower(ds[i].name) = lower(name)
                 THEN [ds[i] EXCEPT !.name = name]
                 ELSE ds[i]],
     models |-> ms]

\* model.imports: what the model was given to import and what the data types
\* of its fields import
model_imports(model) ==
    model.imports \cup
    {model.fields[k].type.name :
        k \in {j \in 1..Len(model.fields) : model.fields[j].type.kind = "common"}}

\* duplicate_name_suffix
ModelSuffix == <<"M","o","d","e","l">>

\* ModelResolver.add(..., unique=True): the name, or the name with the suffix,
\* or that with a count, the first the scope does not hold
Uniq(name, taken) ==
    LET cands == <<name, name \o ModelSuffix, name \o ModelSuffix \o <<"1">>,
                   name \o ModelSuffix \o <<"2">> >>
    IN  cands[CHOOSE k \in 1..Len(cands) :
                  /\ cands[k] \notin taken
                  /\ \A j \in 1..(k - 1) : cands[j] \in taken]

\* Parser._get_cleaned_models, the loop over the models from the k-th on, with
\* the names scoped_model_resolver holds
RECURSIVE ScopedNames(_, _, _, _)
ScopedNames(ds, ms, k, taken) ==
    IF k > Len(ms) THEN ds
    ELSE LET generated_name == Uniq(ds[ms[k]].name, taken)
         IN  ScopedNames([ds EXCEPT ![ms[k]].name = generated_name], ms, k + 1,
                         taken \cup {generated_name})

\* Parser._get_cleaned_models, for models none of which is of the root type of
\* the schema parser; exclude_names are the names the models import
get_cleaned_models(ds, ms) ==
    LET exclude_names ==
            {ValueChars[i] : i \in UNION {model_imports(ds[ms[k]]) : k \in 1..Len(ms)}}
    IN  [defs |-> ScopedNames(ds, ms, 1, exclude_names), models |-> ms]

----------------------------------------------------------------------------
(* The Parser objects of one module and what the schema parser gives them *)

N_Collection == <<"D","r","i","v","e","C","o","l","l","e","c","t","i","o","n">>
N_Element == <<"D","r","i","v","e","C","o","l","l","e","c","t","i","o","n","D","r","i","v","e">>
N_Status == <<"S","t","a","t","u","s">>
N_Resource == <<"R","e","s","o","u","r","c","e">>
Description == <<"M","a","i","n">>

\* a field of a plain type
Plain(name) == [name |-> name, wrap |-> Bare, type |-> Builtin("str")]

\* the fields a sample of the kind gives a model
KindFields(kind) ==
    CASE kind = LINK -> <<Plain("odata_id")>>
      [] kind = ACTION_ -> <<Plain("target"), Plain("redfish_action_info")>>
      [] kind = RESOURCE ->
            <<Plain("odata_id"), Plain("odata_type"), Plain("id"), Plain("name")>>
      [] kind = COLLECTION ->
            <<Plain("odata_id"), Plain("odata_type"), Plain("id"), Plain("name"),
              Plain("members_odata_count"), Plain("members")>>
      [] kind = UNKNOWN -> <<>>

Kinds == {LINK, ACTION_, RESOURCE, COLLECTION, UNKNOWN}

\* a CustomDataModel as the schema parser builds it
Model(id, name, fields) ==
    [id |-> id, name |-> name, fields |-> fields, base_classes |-> <<"BaseModel">>,
     methods |-> <<>>, imports |-> {}, description |-> NoName]

\* self._parser.results for a sample with one nested object: the model of the
\* sample, with a field of the nested object's model, and that model
Results(root_name, root_kind, nested_name, nested_kind, wrap, root_first) ==
    LET root == IF root_first THEN 1 ELSE 2
        nested == IF root_first THEN 2 ELSE 1
        r == Model(root, root_name,
                   KindFields(root_kind) \o
                       <<[name |-> "related", wrap |-> wrap, type |-> Ref(nested)]>>)
        n == Model(nested, nested_name, KindFields(nested_kind) \o <<Plain("reading")>>)
    IN  IF root_first THEN <<r, n>> ELSE <<n, r>>

\* the class name the schema parser gives the model of the sample: the
\* full_name, or the full_name in another case
RootNames(name) == {name, <<name[1]>> \o lower(Tail(name))}

\* a Parser: its redfish_data (full_name, description), child_data (full_name)
\* and self._parser.results; a sample with a Name has a description
ParserOf(name, child, results) ==
    [full_name |-> name, child |-> child, results |-> results,
     description |-> IF \E i \in 1..Len(results) :
                            results[i].name \in RootNames(name)
                            /\ InList("name", FieldNames(results[i]))
                     THEN Description ELSE NoName]

\* generate_lib, second loop: one Parser for a node
Singles ==
    {<<ParserOf(name, NoName,
                Results(IF exact THEN name ELSE <<name[1]>> \o lower(Tail(name)),
                        root_kind, nested_name, nested_kind, wrap, root_first))>> :
        name \in {N_Collection, N_Element},
        exact \in BOOLEAN,
        root_kind \in {RESOURCE, COLLECTION, UNKNOWN},
        nested_name \in {N_Status, N_Resource},
        nested_kind \in Kinds,
        wrap \in Wrappers,
        root_first \in BOOLEAN}

\* generate_lib, first loop: a Parser for the Element, then a Parser for its
\* parent, with the Element as child_data
Pairs ==
    {<<ParserOf(N_Element, NoName,
                Results(N_Element, RESOURCE, e_name, e_kind, e_wrap, TRUE)),
       ParserOf(N_Collection, N_Element,
                Results(c_root, COLLECTION, c_name, c_kind, Bare, TRUE))>> :
        e_name \in {N_Status, N_Resource},
        e_kind \in {UNKNOWN, LINK, RESOURCE},
        e_wrap \in {Bare, "List[]"},
        c_root \in RootNames(N_Collection),
        c_name \in {N_Status, N_Resource},
        c_kind \in {UNKNOWN, LINK, RESOURCE}}

\* Parser(redfish_data, child_data) of the k-th parser, up to
\* models = self._parser.results in _get_data_models
ParserStarts(k) ==
    /\ half' = k
    /\ defs' = halves[k].results
    /\ models' = [i \in 1..Len(halves[k].results) |-> i]
    /\ ppc' = "update_collection_methods"

ParserInit ==
    /\ max_models = 0
    /\ max_collection = 0
    /\ entry_point = "/a"
    /\ target = Tree
    /\ redfish = <<>>
    /\ objects = <<>>
    /\ scanned_uris = <<>>
    /\ problems = <<>>
    /\ stack = <<>>
    /\ fetched = <<>>
    /\ got = <<>>
    /\ uris_of = <<>>
    /\ picked = <<>>
    /\ calls = {}
    /\ pc = "process_data"
    /\ processed_data = <<>>
    /\ init_data = <<>>
    /\ lib_problems = <<>>
    /\ files = <<>>
    /\ idx = 0
    /\ synth = <<>>
    /\ halves \in Singles \cup Pairs
    /\ half = 1
    /\ defs = halves[1].results
    /\ models = [i \in 1..Len(halves[1].results) |-> i]
    /\ ppc = "update_collection_methods"
    /\ bodies = <<>>
    /\ categories = <<>>

\* one statement of _get_data_models, or _get_cleaned_models
ParserStep(at, then, r) ==
    /\ ppc = at
    /\ ppc' = then
    /\ defs' = r.defs
    /\ models' = r.models
    /\ UNCHANGED <<categories, scanVars, pc, libVars, halves, half, bodies>>

UpdateCollectionMethods ==
    ParserStep("update_collection_methods", "clean_up_link",
               update_collection_methods(defs, models, halves[half].full_name,
                                         halves[half].child))

CleanUpLink ==
    ParserStep("clean_up_link", "clean_up_action", clean_up_models(defs, models, LINK))

CleanUpAction ==
    ParserStep("clean_up_action", "update_resource", clean_up_models(defs, models, ACTION_))

UpdateResource ==
    ParserStep("update_resource", "update_collection", update_classes(defs, models, RESOURCE))

UpdateCollection ==
    ParserStep("update_collection", "update_description",
               update_classes(defs, models, COLLECTION))

UpdateDescription ==
    ParserStep("update_description", "update_url",
               update_description(defs, models, halves[half].full_name,
                                  halves[half].description))

UpdateUrl ==
    ParserStep("update_url", "update_root_model_name",
               update_url(defs, models, halves[half].full_name))

UpdateRootModelName ==
    ParserStep("update_root_model_name", "get_cleaned_models",
               update_root_model_name(defs, models, halves[half].full_name))

GetCleanedModels ==
    ParserStep("get_cleaned_models", "results", get_cleaned_models(defs, models))

\* Parser.results: the body is the code of the models, in order
ParserResults ==
    /\ ppc = "results"
    /\ ppc' = "result"
    /\ bodies' = Append(bodies, [i \in 1..Len(models) |-> defs[models[i]]])
    /\ UNCHANGED <<categories, scanVars, pc, libVars, halves, half, defs, models>>

\* generate_lib, first loop: collection = self._process_data(data.parent, data)
NextParser ==
    /\ ppc = "result"
    /\ half < Len(halves)
    /\ ParserStarts(half + 1)
    /\ UNCHANGED <<categories, scanVars, pc, libVars, halves, bodies>>

\* _save_module: the bodies are joined into the module
SaveModule ==
    /\ ppc = "result"
    /\ half = Len(halves)
    /\ ppc' = "saved"
    /\ UNCHANGED <<categories, scanVars, pc, libVars, halves, half, defs, models, bodies>>

ParserNext ==
    \/ UpdateCollectionMethods
    \/ CleanUpLink
    \/ CleanUpAction
    \/ UpdateResource
    \/ UpdateCollection
    \/ UpdateDescription
    \/ UpdateUrl
    \/ UpdateRootModelName
    \/ GetCleanedModels
    \/ ParserResults
    \/ NextParser
    \/ SaveModule

ParserSpec == ParserInit /\ [][ParserNext]_vars

----------------------------------------------------------------------------
(* RedfishData.category on its own, for objects built one under the other *)

N_Drive == <<"D","r","i","v","e">>
N_DRIVE == <<"D","R","I","V","E">>
N_Chassis == <<"C","h","a","s","s","i","s">>
N_COLLECTION == <<"D","r","i","v","e","C","O","L","L","E","C","T","I","O","N">>
NodeNames == {N_Drive, N_DRIVE, N_Chassis, N_Collection, N_COLLECTION}

MaxDepth == 3

\* RedfishData(name, data, uri, parent), for data with @odata.id and
\* @odata.type or with neither
RedfishData(name, uri, parent, marked) ==
    [name |-> name, uri |-> uri, parent |-> parent,
     data |-> [otype |-> IF marked THEN <<"#">> \o name \o <<".">> \o name ELSE NoName,
               odata_id |-> IF marked THEN uri ELSE NoUri,
               Members |-> <<>>, links |-> <<>>]]

ChainUris == <<"/a", "/b", "/c", "/d">>

\* the objects of the names, each the parent of the next
ChainOf(names, marked) ==
    [u \in {ChainUris[k] : k \in 1..Len(names)} |->
        LET k == CHOOSE j \in 1..Len(names) : ChainUris[j] = u
        IN  RedfishData(names[k], u, IF k = 1 THEN None ELSE ChainUris[k - 1], marked)]

Chains ==
    {ChainOf(names, marked) :
        names \in UNION {[1..n -> NodeNames] : n \in 1..MaxDepth}, marked \in BOOLEAN}

CategoryInit ==
    /\ max_models = 0
    /\ max_collection = 0
    /\ entry_point = "/a"
    /\ target = Tree
    /\ redfish = <<>>
    /\ objects \in Chains
    /\ scanned_uris = <<>>
    /\ problems = <<>>
    /\ stack = <<>>
    /\ fetched = <<>>
    /\ got = <<>>
    /\ uris_of = <<>>
    /\ picked = <<>>
    /\ calls = {}
    /\ pc = "category"
    /\ processed_data = <<>>
    /\ init_data = <<>>
    /\ lib_problems = <<>>
    /\ files = <<>>
    /\ idx = 0
    /\ synth = <<>>
    /\ halves = <<>>
    /\ half = 0
    /\ defs = <<>>
    /\ models = <<>>
    /\ ppc = "idle"
    /\ bodies = <<>>
    /\ categories = <<>>

\* data.category, for every object
Category ==
    /\ pc = "category"
    /\ pc' = "done"
    /\ categories' = [o \in DOMAIN objects |-> category(objects, o)]
    /\ UNCHANGED <<scanVars, libVars, parserVars>>

CategorySpec == CategoryInit /\ [][Category]_vars

----------------------------------------------------------------------------
(* FileProcessor.generate_lib on its own, for the lists a scan can give *)

N_Dr == <<"D","r">>

\* the objects a scan built: a Collection with two Elements of different
\* names, a second Collection of the same full_name with an Element, and a
\* Resource
LibObjects ==
    ("/a" :> RedfishData(N_Collection, "/a", None, TRUE)) @@
    ("/b" :> RedfishData(N_Drive, "/b", "/a", TRUE)) @@
    ("/c" :> RedfishData(N_Dr, "/c", "/a", TRUE)) @@
    ("/d" :> RedfishData(N_Collection, "/d", None, TRUE)) @@
    ("/c/1" :> RedfishData(N_Drive, "/c/1", "/d", TRUE)) @@
    ("/e" :> RedfishData(N_Chassis, "/e", None, TRUE))

MaxNodes == 4

\* the lists scan_models can leave in _redfish: no two objects equal, and
\* before an object with a parent an object equal to the parent
LibLists ==
    {list \in UNION {[1..n -> DOMAIN LibObjects] : n \in 0..MaxNodes} :
        /\ \A i, j \in 1..Len(list) : Eq(LibObjects, list[i], list[j]) => i = j
        /\ \A k \in 1..Len(list) :
            LibObjects[list[k]].parent # None =>
                \E j \in 1..(k - 1) : Eq(LibObjects, list[j], LibObjects[list[k]].parent)}

LibInit ==
    /\ max_models = MaxNodes
    /\ max_collection = 0
    /\ entry_point = "/a"
    /\ target = Tree
    /\ redfish \in LibLists
    /\ objects = LibObjects
    /\ scanned_uris = <<>>
    /\ problems = <<>>
    /\ stack = <<>>
    /\ fetched = <<>>
    /\ got = <<>>
    /\ uris_of = <<>>
    /\ picked = <<>>
    /\ calls = {}
    /\ pc = "scanned"
    /\ processed_data = <<>>
    /\ init_data = <<>>
    /\ lib_problems = <<>>
    /\ files = <<>>
    /\ idx = 0
    /\ synth = <<>>
    /\ halves = <<>>
    /\ half = 0
    /\ defs = <<>>
    /\ models = <<>>
    /\ ppc = "idle"
    /\ bodies = <<>>
    /\ categories = <<>>

LibNext ==
    \/ GenerateLib
    \/ Pass1Skip
    \/ Pass1Pair
    \/ Pass1Done
    \/ Pass2Skip
    \/ Pass2Single
    \/ Pass2Done

LibSpec == LibInit /\ [][LibNext]_vars


----------------------------------------------------------------------------
(* FileProcessor._prepare_init_file on its own, for init_data of any names *)

MaxEntries == 3

\* a class name of n characters: a capital and lower case letters
ClassName(c, n) == [i \in 1..n |-> IF i = 1 THEN c ELSE LowerChar(c)]

ClassNames == {ClassName(c, n) : c \in {"A", "B", "C"}, n \in {20, 58, 116}}

\* the entry generate_lib appends for a node that is processed alone; the
\* file_name of a name whose only capital is its first character is the name
\* in lower case, none of the three patterns of file_name matches in it
InitEntry(name) == <<lower(name), <<name>> >>

\* the full names of the nodes that were written, each different
NameLists ==
    UNION {{f \in [1..n -> ClassNames] : \A i, j \in 1..n : i # j => f[i] # f[j]} :
              n \in 0..MaxEntries}

\* the lists generate_lib can hand over: the entries of the nodes, then the
\* fixed entry
InitDatas ==
    {Append([i \in 1..Len(names) |-> InitEntry(names[i])],
            <<CommonName, <<DataManager>> >>) : names \in NameLists}

InitFileInit ==
    /\ max_models = 0
    /\ max_collection = 0
    /\ entry_point = "/a"
    /\ target = Tree
    /\ redfish = <<>>
    /\ objects = <<>>
    /\ scanned_uris = <<>>
    /\ problems = <<>>
    /\ stack = <<>>
    /\ fetched = <<>>
    /\ got = <<>>
    /\ uris_of = <<>>
    /\ picked = <<>>
    /\ calls = {}
    /\ pc = "prepare_init_file"
    /\ processed_data = <<>>
    /\ init_data \in InitDatas
    /\ lib_problems = <<>>
    /\ files = <<>>
    /\ idx = 0
    /\ synth = <<>>
    /\ halves = <<>>
    /\ half = 0
    /\ defs = <<>>
    /\ models = <<>>
    /\ ppc = "idle"
    /\ bodies = <<>>
    /\ categories = <<>>

\* self._prepare_init_file(init_data): data.sort(), then the file is written
PrepareInitFile ==
    /\ pc = "prepare_init_file"
    /\ pc' = "done"
    /\ init_data' = Sorted(init_data)
    /\ files' = (InitName :> [kind |-> "init", bodies |-> <<>>, imports |-> <<>>,
                              text |-> prepare_init_file(init_data)]) @@ files
    /\ UNCHANGED <<parserVars, categories, scanVars, processed_data, lib_problems, idx, synth>>

InitFileSpec == InitFileInit /\ [][PrepareInitFile]_vars

----------------------------------------------------------------------------
(* Properties *)

Range(seq) == {seq[i] : i \in 1..Len(seq)}

\* the position of x in a list that holds it
IndexOf(x, list) == CHOOSE i \in 1..Len(list) : list[i] = x

\* the scan_models call for uri got its sample and has returned
Returned(uri) ==
    /\ uri \in DOMAIN uris_of
    /\ \A i \in 1..Len(stack) : stack[i].entry_point # uri

\* C1: the kept nodes have pairwise different full_names, and a step that
\* builds a node whose full_name a kept node already has leaves the kept
\* nodes as they are (the list only ever grows at its end, and the nodes
\* in it are never changed)
C1_UniqueFullNames ==
    \A i, j \in 1..Len(redfish) :
        i # j => full_name(objects, redfish[i]) # full_name(objects, redfish[j])

C1_FirstSeenKept ==
    /\ Len(redfish') >= Len(redfish)
    /\ SubSeq(redfish', 1, Len(redfish)) = redfish
    /\ \A o \in DOMAIN objects : o \in DOMAIN objects' /\ objects'[o] = objects[o]
    /\ \A o \in DOMAIN objects' \ DOMAIN objects :
            (\E i \in 1..Len(redfish) :
                full_name(objects', redfish[i]) = full_name(objects', o))
            => redfish' = redfish

C1_Dedup == [](C1_UniqueFullNames) /\ [][C1_FirstSeenKept]_vars

\* a node was built whose full_name an earlier kept node has, and it is not kept
C1_Witness ==
    \E o \in DOMAIN objects :
        /\ ~InList(o, redfish)
        /\ \E i \in 1..Len(redfish) :
            full_name(objects, redfish[i]) = full_name(objects, o)

\* C2: the discovered collection never holds more than max_models nodes
C2_Budget == Len(redfish) <= max_models

\* the budget is used up while a loop still holds a URI it would scan
C2_Witness ==
    /\ max_models >= 2
    /\ Len(redfish) = max_models
    /\ \E i \in 1..Len(stack) :
        \E j \in 1..Len(stack[i].uris) : ToScan(stack[i].uris[j])

\* C3: the scan terminates: no URI is fetched twice, so that a finite service
\* is fetched finitely often, and the top-level scan_models call returns to
\* main, whatever the links, failures, names and samples are
C3_Terminates ==
    /\ [](\A i, j \in 1..Len(fetched) : i # j => fetched[i] # fetched[j])
    /\ <>(pc = "scanned")

\* the scan has returned although it ran through a cycle of resources that
\* were not registered, with budget to spare
C3_Witness ==
    /\ pc = "scanned"
    /\ BudgetLeft
    /\ target = Chain
    /\ Len(fetched) = 4
    /\ redfish = <<>>
    /\ problems = <<>>

\* the fetch of u raised
Failed(u) == u \in DOMAIN got /\ ~got[u].ok

ProblemsFor(u) == Cardinality({i \in 1..Len(problems) : problems[i].url = u})

\* the URIs reached from the URIs of S through the child URIs _get_uris
\* returned (after sampling), which exist for the samples that were processed
RECURSIVE LinkClosure(_)
LinkClosure(S) ==
    LET T == S \cup UNION {Range(uris_of[x]) : x \in S \cap DOMAIN uris_of}
    IN  IF T = S THEN S ELSE LinkClosure(T)

ScanOver == pc \notin {"main", "scan"}

\* what a failed fetch of u leaves behind: one Problem, no node, no children
FailureIsLocal(u) ==
    /\ ProblemsFor(u) = 1
    /\ u \notin DOMAIN objects
    /\ ~InList(u, redfish)
    /\ u \notin DOMAIN uris_of
    /\ \A c \in calls : c[1] # u

\* C4 as claimed: after a failed fetch of u, and with budget left when the scan
\* is over, every URI reachable from the entry by extracted links, u aside,
\* has been visited
C4_AsClaimed ==
    \A u \in DOMAIN got :
        Failed(u) =>
            /\ FailureIsLocal(u)
            /\ (ScanOver /\ BudgetLeft) =>
                    (LinkClosure({entry_point}) \ {u}) \subseteq Range(scanned_uris)

\* C4 (amended): a failed fetch of u leaves exactly one Problem for u, no node
\* for u and no call made through u; the step in which it fails leaves every
\* caller in its loop; and when the scan is over with budget left, every URI
\* reachable from the entry by extracted links that does not match the
\* excluded pattern has been visited
C4_FailureState ==
    \A u \in DOMAIN got :
        Failed(u) =>
            /\ FailureIsLocal(u)
            /\ (ScanOver /\ BudgetLeft) =>
                    {x \in LinkClosure({entry_point}) : ~Excluded(x)}
                        \subseteq Range(scanned_uris)

C4_FailureStep ==
    \A u \in DOMAIN got' \ DOMAIN got :
        ~got'[u].ok =>
            /\ Len(stack') = Len(stack)
            /\ \A i \in 1..Len(stack) :
                /\ stack'[i].entry_point = stack[i].entry_point
                /\ stack'[i].model = stack[i].model
                /\ i < Len(stack) => stack'[i] = stack[i]
            /\ stack # <<>> => stack'[Len(stack)].uris = Tail(stack[Len(stack)].uris)

C4_FailedFetch == [](C4_FailureState) /\ [][C4_FailureStep]_vars

\* a fetch failed and a sibling of the failed URI was fetched after it
C4_Witness ==
    /\ ScanOver
    /\ BudgetLeft
    /\ \E u, v \in DOMAIN got :
        /\ Failed(u)
        /\ got[v].ok
        /\ IndexOf(v, fetched) > IndexOf(u, fetched)
        /\ \E p \in DOMAIN uris_of : <<p, u>> \in calls /\ <<p, v>> \in calls

\* the resource fetched from r has the name of the parent it was found from
ParentNamed(r) ==
    /\ r \in DOMAIN got
    /\ got[r].ok
    /\ got[r].parent # None
    /\ get_model_name(got[r].data) = objects[got[r].parent].name

\* C5 as claimed: a parent-named resource is not registered, and each of its
\* child URIs is fetched unless the budget is exhausted
C5_AsClaimed ==
    \A r \in DOMAIN got :
        ParentNamed(r) =>
            /\ r \notin DOMAIN objects
            /\ ~InList(r, redfish)
            /\ Returned(r) =>
                    \A c \in Range(uris_of[r]) : InList(c, fetched) \/ ~BudgetLeft

\* C5 (amended): a parent-named resource is not registered, and each of its
\* child URIs that does not match the excluded pattern is fetched unless the
\* budget is exhausted
C5_ParentNamed ==
    \A r \in DOMAIN got :
        ParentNamed(r) =>
            /\ r \notin DOMAIN objects
            /\ ~InList(r, redfish)
            /\ r \in DOMAIN uris_of
            /\ Returned(r) =>
                    \A c \in Range(uris_of[r]) :
                        InList(c, fetched) \/ Excluded(c) \/ ~BudgetLeft

\* a child of a parent-named resource was fetched through it
C5_Witness ==
    \E r \in DOMAIN got :
        /\ ParentNamed(r)
        /\ Returned(r)
        /\ \E c \in Range(uris_of[r]) :
            /\ <<r, c>> \in calls
            /\ c \in DOMAIN got
            /\ got[c].ok
            /\ IndexOf(c, fetched) > IndexOf(r, fetched)

C7_Step ==
    (pc \in {"main", "scan"} /\ Len(redfish) >= max_models) =>
        /\ fetched' = fetched
        /\ got' = got
        /\ scanned_uris' = scanned_uris
        /\ problems' = problems
        /\ redfish' = redfish
        /\ objects' = objects
        /\ Len(stack') <= Len(stack)
        /\ \A i \in 1..Len(stack') :
            /\ stack'[i].entry_point = stack[i].entry_point
            /\ Len(stack'[i].uris) <= Len(stack[i].uris)

C7_LimitStops == [][C7_Step]_vars

\* the scan is over, and a URI that was passed to scan_models after the limit
\* was reached is neither scanned nor excluded, and no Problem was recorded
C7_Witness ==
    /\ pc = "scanned"
    /\ max_models >= 1
    /\ Len(redfish) = max_models
    /\ problems = <<>>
    /\ \E c \in calls : ToScan(c[2])

\* the partner of the k-th _process_data call, for a call made for a pair: the
\* Element is processed first and its collection right after it
Partner(k) == IF synth[k].child = None THEN k + 1 ELSE k - 1

\* the _process_data calls that raised, in order
FailedSynth == SelectSeq(synth, LAMBDA e : ~e.ok)

\* the k-th _process_data call returned and so did the one for its partner
Succeeded(k) == synth[k].ok /\ (synth[k].pair => synth[Partner(k)].ok)

\* the files of the models written by _save_module
Units == {f \in DOMAIN files : files[f].kind = "models"}

\* the entries of init_data that list the name
Listing(name) == {i \in 1..Len(init_data) : InList(name, init_data[i][2])}

\* the node of the k-th _process_data call is in a written module, under the
\* file name of the node (of the collection, for a pair), and init_data has
\* an entry of that file that lists its full_name
Emitted(k) ==
    LET e == synth[k]
        owner == IF e.pair /\ e.child = None THEN synth[k + 1].node ELSE e.node
        f == file_name(objects, owner)
    IN  /\ f \in Units
        /\ InList(e.node, files[f].bodies)
        /\ \E i \in Listing(full_name(objects, e.node)) : init_data[i][1] = f

\* generate_lib has a step to take: its loops are within the list or at its
\* end, and an Element that is due with its parent has a parent node
LibCanStep ==
    CASE pc = "pass1" ->
            /\ idx \in 1..(Len(redfish) + 1)
            /\ (idx <= Len(redfish) /\ PairDue(redfish[idx])) =>
                    objects[redfish[idx]].parent \in DOMAIN objects
      [] pc = "pass2" -> idx \in 1..(Len(redfish) + 1)
      [] OTHER -> TRUE

InLib == pc \in {"scanned", "pass1", "pass2"}

\* the number of steps generate_lib has left at most
LibSteps ==
    CASE pc = "scanned" -> 2 * Len(redfish) + 3
      [] pc = "pass1" -> 2 * Len(redfish) + 3 - idx
      [] pc = "pass2" -> Len(redfish) + 2 - idx
      [] OTHER -> 0

\* C8: generate_lib runs to its end: until then a step of it can always be
\* taken, whatever calls raised, and each step leaves fewer steps to take. At
\* the end every kept node is in
\* processed_data; every node of processed_data went through _process_data;
\* the Problems of the processor are, in order, one per call that raised, with
\* the URI of the node of the call; and every node whose call returned (for a
\* pair: and whose partner's call returned) is in a written module and in
\* init_data
C8_State ==
    /\ InLib => LibCanStep
    /\ \A j \in 1..Len(processed_data) :
            \E k \in 1..Len(synth) : synth[k].node = processed_data[j]
    /\ Len(lib_problems) = Len(FailedSynth)
    /\ \A k \in 1..Len(FailedSynth) :
            lib_problems[k].url = objects[FailedSynth[k].node].uri
    /\ \A k \in 1..Len(synth) : Succeeded(k) => Emitted(k)
    /\ pc = "done" =>
            \A i \in 1..Len(redfish) : Contains(objects, processed_data, redfish[i])

C8_Step == InLib => LibSteps' < LibSteps

C8_Completes == [](C8_State) /\ [][C8_Step]_vars

\* generate_lib is over, a call raised and a later call for a node that is
\* processed alone returned and its module was written
C8_Witness ==
    /\ pc = "done"
    /\ \E k, l \in 1..Len(synth) :
        /\ k < l
        /\ ~synth[k].ok
        /\ ~synth[l].pair
        /\ synth[l].ok
        /\ Emitted(l)

\* C9: when a call for a node of a pair raised, or the call for its partner
\* did, no entry of init_data lists the node's full_name, no written module
\* holds a node of that full_name, and _process_data was called once only for
\* a node of that full_name
C9_PairSkipped ==
    \A k \in 1..Len(synth) :
        (synth[k].pair /\ ~Succeeded(k)) =>
            LET name == full_name(objects, synth[k].node)
            IN  /\ Listing(name) = {}
                /\ \A f \in Units : \A b \in 1..Len(files[f].bodies) :
                        full_name(objects, files[f].bodies[b]) # name
                /\ file_name(objects, synth[k].node) \notin Units
                /\ \A l \in 1..Len(synth) :
                        full_name(objects, synth[l].node) = name => l = k

\* generate_lib is over; the call for an Element returned, the call for its
\* collection raised, and both are kept nodes the second loop went over
C9_Witness ==
    /\ pc = "done"
    /\ \E k \in 1..Len(synth) :
        /\ synth[k].pair
        /\ synth[k].child = None
        /\ synth[k].ok
        /\ ~synth[k + 1].ok
        /\ InList(synth[k].node, redfish)
        /\ InList(synth[k + 1].node, redfish)

\* C10: a full_name is listed once at most in init_data and held once at
\* most by the written modules; no Problem of the scan carries the URI of a
\* node, kept or not, and the processor has no Problem but for the calls
\* that raised
C10_ExportedOnce ==
    /\ \A i, j \in 1..Len(init_data) :
            \A a \in 1..Len(init_data[i][2]) : \A b \in 1..Len(init_data[j][2]) :
                init_data[i][2][a] = init_data[j][2][b] => (i = j /\ a = b)
    /\ \A f, g \in Units :
            \A a \in 1..Len(files[f].bodies) : \A b \in 1..Len(files[g].bodies) :
                full_name(objects, files[f].bodies[a]) = full_name(objects, files[g].bodies[b])
                    => (f = g /\ a = b)
    /\ \A o \in DOMAIN objects : ProblemsFor(o) = 0
    /\ Len(lib_problems) = Cardinality({k \in 1..Len(synth) : ~synth[k].ok})

\* two resources found from different resources gave nodes of one full_name,
\* one of them kept; generate_lib exported the name, and there is no Problem
C10_Witness ==
    /\ pc = "done"
    /\ problems = <<>>
    /\ lib_problems = <<>>
    /\ \E o \in DOMAIN objects : \E i \in 1..Len(redfish) :
        /\ ~InList(o, redfish)
        /\ full_name(objects, redfish[i]) = full_name(objects, o)
        /\ \A c, d \in calls : (c[2] = o /\ d[2] = redfish[i]) => c[1] # d[1]
        /\ Listing(full_name(objects, o)) # {}

\* the names the __all__ list of the written __init__.py holds
AllNames == UNION {Range(files[InitName].text.all[l]) :
                      l \in 1..Len(files[InitName].text.all)}

InitWritten == pc = "done" /\ InitName \in DOMAIN files

\* C11: once __init__.py is written, its __all__ list holds every class name
\* of every entry of init_data
C11_AllListed ==
    InitWritten =>
        \A i \in 1..Len(init_data) : Range(init_data[i][2]) \subseteq AllNames

\* __init__.py is written and its __all__ list takes more than one line
C11_Witness == InitWritten /\ Len(files[InitName].text.all) >= 2

\* the module is saved
Saved == ppc = "saved"

\* the Parsers that are through, and the models each was given
Through == 1..Len(bodies)
Drafts(h) == {halves[h].results[i] : i \in 1..Len(halves[h].results)}

\* the model of the identity is in the body of the h-th Parser
InBody(h, id) == \E k \in 1..Len(bodies[h]) : bodies[h][k].id = id
Final(h, id) == bodies[h][CHOOSE k \in 1..Len(bodies[h]) : bodies[h][k].id = id]

\* the model has none of the fields of the category and the class of the
\* category as its only base class
Collapsed(model, cat) ==
    /\ \A k \in 1..Len(model.fields) :
        ~InList(model.fields[k].name, CategoryFields(cat) \o optional_fields(cat))
    /\ model.base_classes = <<cat>>

Canonical == {LINK, ACTION_, RESOURCE, COLLECTION}

\* C12 as claimed: every model the schema parser gave whose category is Link,
\* Action, Resource or Collection is in the body, without the fields of its
\* category and with the class of the category as its base class
C12_AsClaimed ==
    \A h \in Through : \A d \in Drafts(h) :
        model_category(d) \in Canonical =>
            InBody(h, d.id) /\ Collapsed(Final(h, d.id), model_category(d))

\* C12 (amended): every model the schema parser gave whose category is
\* Resource or Collection is in the body, without the defining and the
\* optional fields of its category and with the class of the category as its
\* only base class; a model whose category is Link or Action is not in the body
C12_Collapse ==
    \A h \in Through : \A d \in Drafts(h) :
        /\ model_category(d) \in {RESOURCE, COLLECTION} =>
                InBody(h, d.id) /\ Collapsed(Final(h, d.id), model_category(d))
        /\ model_category(d) \in {LINK, ACTION_} => ~InBody(h, d.id)

\* a module is saved whose Parser was given a Collection model, which had the
\* fields of its category and is in the body without them, and a Link model
C12_Witness ==
    /\ Saved
    /\ \E h \in Through : \E d, l \in Drafts(h) :
        /\ model_category(d) = COLLECTION
        /\ InList("members", FieldNames(d))
        /\ InList("name", FieldNames(d))
        /\ InBody(h, d.id)
        /\ Final(h, d.id).base_classes = <<COLLECTION>>
        /\ ~InList("members", FieldNames(Final(h, d.id)))
        /\ model_category(l) = LINK

\* the field of the name in the model
FieldOf(model, name) ==
    model.fields[CHOOSE k \in 1..Len(model.fields) : model.fields[k].name = name]

\* the fields of the model d that refer to a model of the same Parser, as
\* <<name of the field, wrapper, model referred to>>
References(h, d) ==
    {<<d.fields[k].name, d.fields[k].wrap, halves[h].results[d.fields[k].type.id]>> :
        k \in {j \in 1..Len(d.fields) : d.fields[j].type.kind = "ref"}}

\* the field is of the class of the category, in the wrapper
RefersToCanonical(field, wrap, cat) ==
    /\ field.type.kind = "common"
    /\ field.type.name = cat
    /\ field.wrap = wrap

\* the wrapper, as the shape it stands for
Shape(wrap) == IF wrap = "Dict[str, ]" THEN "Dict[]" ELSE wrap

Classes == UNION {{<<h, k>> : k \in 1..Len(bodies[h])} : h \in Through}

\* C14: the class names of one module are pairwise distinct, in a module of
\* one node and in a module of an Element and its Collection
C14_DistinctNames ==
    \A c1, c2 \in Classes :
        c1 # c2 => bodies[c1[1]][c1[2]].name # bodies[c2[1]][c2[2]].name

\* within the body of one Parser the class names are pairwise distinct and
\* none is a name the models import
C14_PerParser ==
    \A h \in Through : \A k1, k2 \in 1..Len(bodies[h]) :
        /\ k1 # k2 => bodies[h][k1].name # bodies[h][k2].name
        /\ \A i \in model_imports(bodies[h][k2]) : bodies[h][k1].name # ValueChars[i]

\* the module of a pair is saved, the body of the Element and the body of the
\* Collection each holding a nested model of the same name
C14_Witness ==
    /\ Saved
    /\ Len(bodies) = 2
    /\ \E k1 \in 1..Len(bodies[1]) : \E k2 \in 1..Len(bodies[2]) :
        /\ bodies[1][k1].name = N_Status
        /\ bodies[2][k2].name = N_Status

\* the name holds "collection", whatever the case of its letters
NamesCollection(name) ==
    \E i \in 1..Len(name) :
        /\ i + 9 <= Len(name)
        /\ lower(SubSeq(name, i, i + 9)) = <<"c","o","l","l","e","c","t","i","o","n">>

\* the object has a parent whose name holds "collection" and holds the
\* object's name
ElementOfParent(o) ==
    /\ objects[o].parent # None
    /\ NamesCollection(objects[objects[o].parent].name)
    /\ StrIn(objects[o].name, objects[objects[o].parent].name)

\* C15: an object whose name holds "collection" in any case is a Collection,
\* whatever its parent; an object whose name does not is an Element exactly
\* when it has a parent, the parent is a Collection and the object's name is a
\* substring of the parent's name
C15_Classification ==
    pc = "done" =>
        \A o \in DOMAIN categories :
            /\ NamesCollection(objects[o].name) => categories[o] = COLLECTION
            /\ ~NamesCollection(objects[o].name) =>
                /\ categories[o] = ELEMENT <=> ElementOfParent(o)
                /\ objects[o].parent # None =>
                    (categories[objects[o].parent] = COLLECTION
                        <=> NamesCollection(objects[objects[o].parent].name))

\* DriveCollection is a Collection, Drive under it is an Element and
\* DriveCOLLECTION under Drive is a Collection
C15_Witness ==
    /\ pc = "done"
    /\ "/c" \in DOMAIN categories
    /\ objects["/a"].name = N_Collection /\ categories["/a"] = COLLECTION
    /\ objects["/b"].name = N_Drive /\ categories["/b"] = ELEMENT
    /\ objects["/c"].name = N_COLLECTION /\ categories["/c"] = COLLECTION

\* the sample of the object has neither @odata.id nor @odata.type
Unmarked(o) == objects[o].data.odata_id = NoUri /\ objects[o].data.otype = NoName

EntryAnswered ==
    /\ pc = "scanned"
    /\ fetched # <<>>
    /\ got[entry_point].ok

\* the object built for the entry URI is kept, a Resource named Chassis
ChassisNode ==
    /\ redfish # <<>>
    /\ redfish[1] = entry_point
    /\ objects[entry_point].name = N_Chassis
    /\ full_name(objects, entry_point) = N_Chassis
    /\ category(objects, entry_point) = RESOURCE

\* C17 as claimed: from whatever entry URI, the scan whose first fetch is
\* answered with the Chassis sample ends with the Chassis node alone, having
\* fetched the entry URI only and called scan_models for no other URI
C17_AsClaimed ==
    EntryAnswered =>
        /\ ChassisNode
        /\ Len(redfish) = 1
        /\ fetched = <<entry_point>>
        /\ calls = {<<Main, entry_point>>}

\* C17 (amended): the scan whose first fetch is answered with the Chassis
\* sample keeps for the entry URI a Resource named Chassis, and /c/1 is the
\* only URI taken from the sample; from /c/1, or with one model allowed, only
\* the entry URI is fetched and the node is alone; from another URI, with more
\* models allowed, /c/1 is fetched too, with the Chassis node as parent, and
\* when that is answered with the same type or fails the node is still alone
C17_Chassis ==
    EntryAnswered =>
        /\ ChassisNode
        /\ uris_of[entry_point] = <<"/c/1">>
        /\ (entry_point = "/c/1" \/ max_models = 1) =>
                Len(redfish) = 1 /\ fetched = <<entry_point>>
        /\ (entry_point # "/c/1" /\ max_models > 1) =>
                /\ fetched = <<entry_point, "/c/1">>
                /\ got["/c/1"].parent = entry_point
                /\ calls = {<<Main, entry_point>>, <<entry_point, "/c/1">>}
                /\ (~got["/c/1"].ok \/ got["/c/1"].data.otype = T_Chassis) =>
                        Len(redfish) = 1

\* the scan from /a is over: the Chassis sample was the answer at /a, then
\* /c/1 was fetched with the same answer, and the Chassis node is alone
C17_Witness ==
    /\ EntryAnswered
    /\ entry_point = "/a"
    /\ fetched = <<"/a", "/c/1">>
    /\ got["/c/1"].ok
    /\ got["/c/1"].data.otype = T_Chassis
    /\ Len(redfish) = 1

\* the URI holds "jsonschemas", whatever the case of its letters
NamesJsonSchemas(uri) ==
    \E i \in 1..Len(UriChars[uri]) :
        /\ i + 10 <= Len(UriChars[uri])
        /\ lower(SubSeq(UriChars[uri], i, i + 10)) =
                <<"j","s","o","n","s","c","h","e","m","a","s">>

\* no URI was fetched twice, every fetched URI is marked as scanned, also one
\* whose fetch failed, and no fetched URI holds "jsonschemas"
C18_State ==
    /\ \A i, j \in 1..Len(fetched) : fetched[i] = fetched[j] => i = j
    /\ \A i \in 1..Len(fetched) :
        /\ InList(fetched[i], scanned_uris)
        /\ ~NamesJsonSchemas(fetched[i])

\* a step fetches one URI at most, one that was not marked as scanned and is
\* marked when the fetch is issued; no mark is ever taken back
C18_Step ==
    /\ \A i \in 1..Len(scanned_uris) :
        i <= Len(scanned_uris') /\ scanned_uris'[i] = scanned_uris[i]
    /\ fetched' # fetched =>
        /\ Len(fetched') = Len(fetched) + 1
        /\ SubSeq(fetched', 1, Len(fetched)) = fetched
        /\ ~InList(fetched'[Len(fetched')], scanned_uris)
        /\ scanned_uris' = Append(scanned_uris, fetched'[Len(fetched')])

\* C18: in one scan every URI is fetched at most once: it is marked as scanned
\* when its fetch is issued, a marked URI is not fetched again, also when its
\* fetch failed, and a URI that holds "jsonschemas" (in any case) is never
\* fetched
C18_FetchedOnce == [](C18_State) /\ [][C18_Step]_vars

\* the scan is over: a URI whose fetch failed was among the URIs of two
\* samples, and a URI holding "jsonschemas" was among the URIs of a sample
C18_Witness ==
    /\ pc = "scanned"
    /\ \E u \in DOMAIN got :
        /\ ~got[u].ok
        /\ \E r1, r2 \in DOMAIN uris_of :
            r1 # r2 /\ r1 # u /\ r2 # u /\ InList(u, uris_of[r1]) /\ InList(u, uris_of[r2])
    /\ \E r \in DOMAIN uris_of : InList("/JsonSchemas", uris_of[r])

\* the resources from whose loop scan_models was called for the URI
Callers(u) == {c \in DOMAIN got : <<c, u>> \in calls}

\* C19 as claimed: a kept node whose URI was taken from the sample of a fetched
\* resource has the node of that resource as its parent, and a kept node
\* without a parent is the node of the entry URI
C19_AsClaimed ==
    \A k \in 1..Len(redfish) :
        LET u == redfish[k]
        IN  /\ \A c \in Callers(u) : c \in DOMAIN objects => objects[u].parent = c
            /\ objects[u].parent = None => u = entry_point

\* C19 (amended): a node whose URI was taken from the sample of a fetched
\* resource has the node built for that resource as its parent if one was
\* built, and no parent if none was built; so a node without a parent is the
\* node of the entry URI or comes from a resource for which no node was built
C19_Parent ==
    \A u \in DOMAIN objects :
        /\ \A c \in Callers(u) :
            objects[u].parent = IF c \in DOMAIN objects THEN c ELSE None
        /\ objects[u].parent = None =>
            \/ u = entry_point
            \/ \E c \in Callers(u) : got[c].ok /\ c \notin DOMAIN objects

\* the scan is over with two kept nodes that are not of the entry URI, one
\* with the node of the resource it comes from as parent, one, without a
\* parent, from a resource for which no node was built
C19_Witness ==
    /\ pc = "scanned"
    /\ \E k1, k2 \in 1..Len(redfish) :
        /\ redfish[k1] # entry_point
        /\ objects[redfish[k1]].parent # None
        /\ objects[redfish[k1]].parent \in Callers(redfish[k1])
        /\ redfish[k2] # entry_point
        /\ objects[redfish[k2]].parent = None
        /\ \E c \in Callers(redfish[k2]) : got[c].ok /\ c \notin DOMAIN objects

\* a node of the full_name is in the list
Holds(list, o) == \E i \in 1..Len(list) : full_name(objects, list[i]) = full_name(objects, o)

\* the _process_data calls for a node of the full_name of o
SynthOf(o) == {i \in 1..Len(synth) : full_name(objects, synth[i].node) = full_name(objects, o)}

\* the first pass pairs an Element with its parent only when neither is in
\* processed_data, and both are in it afterwards
C20_Step ==
    (pc = "pass1" /\ synth' # synth) =>
        /\ Len(synth') = Len(synth) + 2
        /\ LET e == synth'[Len(synth) + 1].node
               c == synth'[Len(synth) + 2].node
           IN  /\ e = redfish[idx]
               /\ category(objects, e) = ELEMENT
               /\ c = objects[e].parent
               /\ synth'[Len(synth) + 2].child = e
               /\ ~Holds(processed_data, e) /\ ~Holds(processed_data, c)
               /\ Holds(processed_data', e) /\ Holds(processed_data', c)

\* no node is synthesized twice, so no Collection is in two pairs and no paired
\* Element is synthesized again; the parent of a kept Element is not
\* synthesized alone; at the end every kept node is synthesized once, and an
\* Element that was not paired is synthesized alone, its parent being in a pair
C20_State ==
    /\ \A i, j \in 1..Len(synth) :
        full_name(objects, synth[i].node) = full_name(objects, synth[j].node) => i = j
    /\ \A i \in 1..Len(synth) :
        ~synth[i].pair =>
            \A k \in 1..Len(redfish) :
                category(objects, redfish[k]) = ELEMENT =>
                    full_name(objects, objects[redfish[k]].parent)
                        # full_name(objects, synth[i].node)
    /\ pc = "done" =>
        \A k \in 1..Len(redfish) :
            /\ Cardinality(SynthOf(redfish[k])) = 1
            /\ category(objects, redfish[k]) = ELEMENT =>
                \/ \E i \in SynthOf(redfish[k]) : synth[i].pair
                \/ /\ \E i \in SynthOf(redfish[k]) : ~synth[i].pair /\ synth[i].node = redfish[k]
                   /\ \E i \in SynthOf(objects[redfish[k]].parent) : synth[i].pair

\* C20: generate_lib pairs an Element with its parent only when neither is
\* processed and marks both; a Collection is in one pair at most, the parent of
\* a kept Element is never synthesized alone, a paired Element is not
\* synthesized again, an Element whose parent is already processed is
\* synthesized alone in the second pass, and every node is synthesized exactly
\* once
C20_Pairing == [](C20_State) /\ [][C20_Step]_vars

\* generate_lib is over: a Collection was paired with its first Element and
\* its second Element was synthesized alone
C20_Witness ==
    /\ pc = "done"
    /\ \E i, j, k \in 1..Len(synth) :
        /\ synth[i].pair /\ synth[i].child = None
        /\ synth[j].pair /\ synth[j].child = synth[i].node
        /\ ~synth[k].pair
        /\ category(objects, synth[k].node) = ELEMENT
        /\ objects[synth[k].node].parent = synth[j].node

\* the _process_data calls that close a module: the call for the Collection
\* of a pair when both calls of the pair returned, and a call for a node alone
\* that returned
Closing == {k \in 1..Len(synth) :
                /\ synth[k].ok
                /\ synth[k].pair => (synth[k].child # None /\ synth[k - 1].ok)}

\* the entry of init_data the module of the k-th call is to have
EntryOf(k) ==
    IF synth[k].pair
    THEN <<file_name(objects, synth[k].node),
           <<full_name(objects, synth[k].node), full_name(objects, synth[k].child)>> >>
    ELSE <<file_name(objects, synth[k].node), <<full_name(objects, synth[k].node)>> >>

FixedEntry == <<CommonName, <<DataManager>> >>

\* how often the list holds x
Count(list, x) == Cardinality({i \in 1..Len(list) : list[i] = x})

\* C21: at the end of generate_lib init_data holds one entry for each module
\* written, of the module's file name and with the full_names of its nodes
\* (the Collection, then the Element, for a pair), and the one entry of
\* common with DataManager, and nothing else; a node whose _process_data call
\* raised, or whose partner's did, is in no entry; __init__.py has one import
\* statement for each entry
C21_Manifest ==
    pc = "done" =>
        /\ Len(init_data) = Cardinality(Closing) + 1
        /\ Count(init_data, FixedEntry) = 1
        /\ \A k \in Closing :
            /\ Count(init_data, EntryOf(k)) = 1
            /\ file_name(objects, synth[k].node) \in Units
            /\ Range(files[file_name(objects, synth[k].node)].bodies) =
                    IF synth[k].pair THEN {synth[k].node, synth[k].child}
                    ELSE {synth[k].node}
        /\ \A f \in Units : Cardinality({i \in 1..Len(init_data) : init_data[i][1] = f}) = 1
        /\ \A k \in 1..Len(synth) :
            ~Succeeded(k) => Listing(full_name(objects, synth[k].node)) = {}
        /\ files[InitName].text.imports = init_data

\* generate_lib is over: a pair and a node alone were written and a call for
\* another node raised
C21_Witness ==
    /\ pc = "done"
    /\ \E k1, k2 \in Closing : synth[k1].pair /\ ~synth[k2].pair
    /\ \E k \in 1..Len(synth) : ~synth[k].ok
    /\ Len(init_data) = 3

\* the node is an object kept in _redfish
Kept(o) == \E k \in 1..Len(redfish) : redfish[k] = o

\* C22: every node _process_data is called for, the Collection of a pair
\* included, is an object kept in _redfish, the first built of its full_name,
\* and so is every node of a written module
C22_KeptInstances ==
    /\ \A i \in 1..Len(synth) : Kept(synth[i].node)
    /\ \A f \in Units : \A o \in Range(files[f].bodies) : Kept(o)

\* generate_lib is over after a scan that built two objects of one full_name,
\* the second of them the parent of a kept Element, and a pair is written
C22_Witness ==
    /\ pc = "done"
    /\ \E o1, o2 \in DOMAIN objects :
        /\ o1 # o2
        /\ full_name(objects, o1) = full_name(objects, o2)
        /\ Kept(o1) /\ ~Kept(o2)
        /\ \E k \in 1..Len(redfish) :
            /\ objects[redfish[k]].parent = o2
            /\ category(objects, redfish[k]) = ELEMENT
    /\ \E f \in Units : Len(files[f].bodies) = 2

\* the URIs _get_uris takes from the sample the service holds at u, every
\* member included
LinksAt(u) ==
    LET data == [odata_id |-> target[u].odata_id, Members |-> target[u].Members,
                 links |-> target[u].links]
    IN  {x \in Range(get_uris(data, [i \in 1..Len(data.Members) |-> i])) :
            ~NamesJsonSchemas(x)}

\* the URIs reached from those of S through the samples of the service
RECURSIVE Reach(_)
Reach(S) ==
    LET T == S \cup UNION {LinksAt(u) : u \in S \cap DOMAIN target}
    IN  IF T = S THEN S ELSE Reach(T)

Reachable == Reach({entry_point} \ {u \in {entry_point} : NamesJsonSchemas(u)})

\* the scan is over, no fetch raised, there is budget left and no fetched
\* sample has more Members than max_collection
CompleteScan ==
    /\ pc = "scanned"
    /\ \A u \in DOMAIN got : got[u].ok
    /\ Len(redfish) < max_models
    /\ \A u \in DOMAIN got : Len(got[u].data.Members) <= max_collection

\* C23: when the scan is over without a failed fetch, with budget left and
\* without a Members list above max_collection, the URIs marked as scanned
\* are the URIs reachable from the entry through the links of the samples,
\* excluded URIs aside, and each was fetched exactly once
C23_Complete ==
    CompleteScan =>
        /\ Range(scanned_uris) = Reachable
        /\ Range(fetched) = Reachable
        /\ \A i, j \in 1..Len(fetched) : fetched[i] = fetched[j] => i = j

\* the same, for scans in which no sample made _get_model_name raise
C23_Named ==
    (CompleteScan /\ problems = <<>>) =>
        /\ Range(scanned_uris) = Reachable
        /\ Range(fetched) = Reachable
        /\ \A i, j \in 1..Len(fetched) : fetched[i] = fetched[j] => i = j

\* such a scan is over, having gone through a resource without a name, a
\* resource named as its parent and a resource of a kept full_name
C23_Witness ==
    /\ CompleteScan
    /\ problems = <<>>
    /\ Range(scanned_uris) = Reachable
    /\ Cardinality(Reachable) = 4
    /\ \E u \in DOMAIN got : got[u].data.otype = NoName
    /\ \E u \in DOMAIN got : ParentNamed(u)
    /\ \E u \in DOMAIN objects : ~Kept(u)

====
